---- MODULE Spec2Model ----
(***************************************************************************)
(* surreal/kube/yaml_util.py: YamlList (a collection of YAML documents     *)
(* wrapped as EasyDict objects) and JinjaYaml (a Jinja2 template renderer  *)
(* for YAML), together with the file system they write to.                 *)
(*                                                                         *)
(* Python values are tagged records: the field t is the Python type and    *)
(* the payload has a field name of its own per type.  A str is a sequence  *)
(* of one-character strings.  A YAML text is the sequence of its document  *)
(* nodes plus the indentation it was emitted with.                         *)
(***************************************************************************)
EXTENDS Integers, Sequences, FiniteSets, TLC

VARIABLES
    easydict_keeps_tuple, \* the installed easydict keeps a tuple a tuple
    built,                \* a YamlList object exists
    data_list,            \* YamlList.data_list
    src,                  \* the list the YamlList was constructed from
    log,                  \* the caller's mutations of documents, in order
    fs,                   \* the file system: path -> content
    scope,                \* the two context managers: position and path
    op,                   \* the last call: name and outcome
    arg,                  \* the last call's argument
    ret,                  \* the last call's return value
    dump_arg,             \* the last list handed to yaml.dump_all
    text,                 \* JinjaYaml.text
    context               \* the caller's context mapping

vars == <<easydict_keeps_tuple, built, data_list, src, log, fs, scope, op, arg,
          ret, dump_arg, text, context>>

-----------------------------------------------------------------------------
(* Bounds *)

MaxDocs == 2
MaxMutations == 1

-----------------------------------------------------------------------------
(* Python values *)

NL == "\n"
DQ == "\""
SQ == "'"
BS == "\\"

None == [t |-> "None"]
PyInt(i) == [t |-> "int", i |-> i]
PyBool(b) == [t |-> "bool", b |-> b]
PyFloat(i) == [t |-> "float", f |-> i]
PyStr(s) == [t |-> "str", s |-> s]
PyList(xs) == [t |-> "list", xs |-> xs]
PyTuple(xs) == [t |-> "tuple", xs |-> xs]
PyDict(m) == [t |-> "dict", m |-> m]
Easy(m) == [t |-> "EasyDict", m |-> m]
Raise(exc) == [t |-> "raise", exc |-> exc]

IsRaise(v) == v.t = "raise"
\* isinstance(v, dict): EasyDict is a subclass of dict
IsDictInstance(v) == v.t \in {"dict", "EasyDict"}
IsSequence(v) == v.t \in {"list", "tuple"}
\* isinstance(v, int): bool is a subclass of int
IsIntInstance(v) == v.t \in {"int", "bool"}
IntValue(v) == IF v.t = "bool" THEN (IF v.b THEN 1 ELSE 0) ELSE v.i

EmptyMap == [k \in {} |-> None]

\* the first exception among the values of a mapping, or None
FirstRaiseIn(m) ==
    IF \E k \in DOMAIN m : IsRaise(m[k])
    THEN m[CHOOSE k \in DOMAIN m : IsRaise(m[k])]
    ELSE None

-----------------------------------------------------------------------------
(* easydict.EasyDict, as yaml_util.py uses it *)

\* the sequence type EasyDict.__setattr__ stores for a list or a tuple
EasySeqType(t) == IF easydict_keeps_tuple THEN t ELSE "list"

\* obj.items resolves to the instance attribute that EasyDict.__setattr__ set
\* for a key named "items", which hides dict.items
ItemsCallable(d) == ~(d.t = "EasyDict" /\ "items" \in DOMAIN d.m)

RECURSIVE EasyDict(_)
\* EasyDict.__setattr__ / __setitem__: the value stored for an assigned value
EasySetAttrValue(value) ==
    IF IsSequence(value)
    THEN LET xs == [i \in 1..Len(value.xs) |->
                      IF IsDictInstance(value.xs[i])
                      THEN EasyDict(value.xs[i])
                      ELSE value.xs[i]]
         IN  IF FirstRaiseIn(xs) # None
             THEN FirstRaiseIn(xs)
             ELSE [t |-> EasySeqType(value.t), xs |-> xs]
    ELSE IF value.t = "dict"
    THEN EasyDict(value)
    ELSE value

\* EasyDict(d): None gives an empty EasyDict, a mapping is copied key by key
\* through __setattr__, anything else has no items()
EasyDict(d) ==
    IF d = None THEN Easy(EmptyMap)
    ELSE IF ~IsDictInstance(d) THEN Raise("AttributeError")
    ELSE IF ~ItemsCallable(d) THEN Raise("TypeError")
    ELSE LET m == [k \in DOMAIN d.m |-> EasySetAttrValue(d.m[k])]
         IN  IF FirstRaiseIn(m) # None THEN FirstRaiseIn(m) ELSE Easy(m)

-----------------------------------------------------------------------------
(* recursive_to_dict *)

RECURSIVE recursive_to_dict(_)
recursive_to_dict(easy_dict) ==
    IF ~ItemsCallable(easy_dict) THEN Raise("TypeError")
    ELSE LET conv(value) ==
                 IF value.t = "EasyDict"
                 THEN recursive_to_dict(value)
                 ELSE IF IsSequence(value)
                 THEN LET xs == [i \in 1..Len(value.xs) |->
                                   IF value.xs[i].t = "EasyDict"
                                   THEN recursive_to_dict(value.xs[i])
                                   ELSE value.xs[i]]
                      IN  IF FirstRaiseIn(xs) # None
                          THEN FirstRaiseIn(xs)
                          ELSE [t |-> value.t, xs |-> xs]
                 ELSE value
             d == [k \in DOMAIN easy_dict.m |-> conv(easy_dict.m[k])]
         IN  IF FirstRaiseIn(d) # None THEN FirstRaiseIn(d) ELSE PyDict(d)

\* [recursive_to_dict(d) for d in self.data_list]
RecursiveToDictAll(dl) ==
    LET xs == [i \in 1..Len(dl) |-> recursive_to_dict(dl[i])]
    IN  IF FirstRaiseIn(xs) # None THEN FirstRaiseIn(xs) ELSE PyList(xs)

-----------------------------------------------------------------------------
(* str: repr() and the escaping of JinjaYaml.render *)

RECURSIVE Concat(_)
\* ''.join(parts)
Concat(parts) ==
    IF parts = <<>> THEN <<>> ELSE Head(parts) \o Concat(Tail(parts))

Contains(s, c) == \E i \in 1..Len(s) : s[i] = c

\* the quote repr() delimits a str with: a double quote when the string holds
\* a single quote and no double quote, else a single quote
ReprQuote(s) == IF Contains(s, SQ) /\ ~Contains(s, DQ) THEN DQ ELSE SQ

\* repr() of one character inside the delimiters q
ReprChar(c, q) ==
    IF c = q \/ c = BS THEN <<BS, c>>
    ELSE IF c = NL THEN <<BS, "n">>
    ELSE <<c>>

\* repr(s) of a str s
PyRepr(s) ==
    LET q == ReprQuote(s)
    IN  <<q>> \o Concat([i \in 1..Len(s) |-> ReprChar(s[i], q)]) \o <<q>>

\* '"{}"'.format(repr(value)[1:-1])
EscapeMultiline(s) ==
    LET r == PyRepr(s)
    IN  <<DQ>> \o SubSeq(r, 2, Len(r) - 1) \o <<DQ>>

-----------------------------------------------------------------------------
(* PyYAML: scalars as the scanner reads them from rendered text *)

\* the escapes of a double-quoted YAML scalar, over the model's characters
YamlEscapes == ("n" :> NL) @@ (BS :> BS) @@ (DQ :> DQ) @@ ("a" :> "BEL")

RECURSIVE ScanDoubleQuoted(_, _)
\* the characters after the opening quote -> [val, rest] or an exception
ScanDoubleQuoted(r, acc) ==
    IF r = <<>> THEN Raise("ScannerError")
    ELSE IF r[1] = DQ THEN [t |-> "scanned", val |-> acc, rest |-> Tail(r)]
    ELSE IF r[1] = BS
    THEN IF Len(r) >= 2 /\ r[2] \in DOMAIN YamlEscapes
         THEN ScanDoubleQuoted(SubSeq(r, 3, Len(r)), Append(acc, YamlEscapes[r[2]]))
         ELSE Raise("ScannerError")
    ELSE IF r[1] = NL
    THEN ScanDoubleQuoted(Tail(r), Append(acc, " "))
    ELSE ScanDoubleQuoted(Tail(r), Append(acc, r[1]))

RECURSIVE ScanSingleQuoted(_, _)
ScanSingleQuoted(r, acc) ==
    IF r = <<>> THEN Raise("ScannerError")
    ELSE IF r[1] = SQ
    THEN IF Len(r) >= 2 /\ r[2] = SQ
         THEN ScanSingleQuoted(SubSeq(r, 3, Len(r)), Append(acc, SQ))
         ELSE [t |-> "scanned", val |-> acc, rest |-> Tail(r)]
    ELSE IF r[1] = NL
    THEN ScanSingleQuoted(Tail(r), Append(acc, " "))
    ELSE ScanSingleQuoted(Tail(r), Append(acc, r[1]))

Digits == {"0", "1", "2", "3", "4", "5", "6", "7", "8", "9"}
DigitValue(c) == CHOOSE n \in 0..9 : <<"0", "1", "2", "3", "4", "5", "6", "7", "8", "9">>[n + 1] = c

\* the value of a block mapping's value token: empty is null, a quoted scalar
\* must end the token, a plain scalar may not run over a line break
ScanScalar(s) ==
    IF s = <<>> THEN None
    ELSE IF s[1] \in {DQ, SQ}
    THEN LET r == IF s[1] = DQ
                  THEN ScanDoubleQuoted(Tail(s), <<>>)
                  ELSE ScanSingleQuoted(Tail(s), <<>>)
         IN  IF IsRaise(r) THEN r
             ELSE IF r.rest # <<>> THEN Raise("ParserError")
             ELSE PyStr(r.val)
    ELSE IF Contains(s, NL) THEN Raise("ScannerError")
    ELSE IF Len(s) = 1 /\ s[1] \in Digits THEN PyInt(DigitValue(s[1]))
    ELSE PyStr(s)

-----------------------------------------------------------------------------
(* PyYAML: representation nodes, dump_all and load_all *)

ScalarNode(tag, v) == [t |-> "scalar", tag |-> tag, v |-> v]
SeqNode(tag, xs) == [t |-> "seq", tag |-> tag, xs |-> xs]
MapNode(tag, m) == [t |-> "map", tag |-> tag, m |-> m]
RawNode(s) == [t |-> "raw", s |-> s]

EasyDictTag == "python/object/new:easydict.EasyDict"

RECURSIVE Represent(_)
\* Dumper.represent_data: a tuple and an EasyDict are emitted with python tags
\* (no representer is registered for EasyDict, so represent_object takes it)
Represent(v) ==
    IF IsSequence(v)
    THEN LET xs == [i \in 1..Len(v.xs) |-> Represent(v.xs[i])]
         IN  IF FirstRaiseIn(xs) # None THEN FirstRaiseIn(xs)
             ELSE SeqNode(IF v.t = "tuple" THEN "python/tuple" ELSE "seq", xs)
    ELSE IF IsDictInstance(v)
    THEN IF ~ItemsCallable(v) THEN Raise("TypeError")
         ELSE LET m == [k \in DOMAIN v.m |-> Represent(v.m[k])]
              IN  IF FirstRaiseIn(m) # None THEN FirstRaiseIn(m)
                  ELSE MapNode(IF v.t = "EasyDict" THEN EasyDictTag ELSE "map", m)
    ELSE ScalarNode(v.t, v)

RECURSIVE Construct(_)
\* Loader.construct_document: the inverse, with raw scalars scanned
Construct(n) ==
    IF n.t = "raw" THEN ScanScalar(n.s)
    ELSE IF n.t = "scalar" THEN n.v
    ELSE IF n.t = "seq"
    THEN LET xs == [i \in 1..Len(n.xs) |-> Construct(n.xs[i])]
         IN  IF FirstRaiseIn(xs) # None THEN FirstRaiseIn(xs)
             ELSE IF n.tag = "python/tuple" THEN PyTuple(xs) ELSE PyList(xs)
    ELSE LET m == [k \in DOMAIN n.m |-> Construct(n.m[k])]
         IN  IF FirstRaiseIn(m) # None THEN FirstRaiseIn(m)
             ELSE IF n.tag = EasyDictTag
             THEN LET e == [k \in DOMAIN m |-> EasySetAttrValue(m[k])]
                  IN  IF FirstRaiseIn(e) # None THEN FirstRaiseIn(e) ELSE Easy(e)
             ELSE PyDict(m)

IsCollectionNode(n) == n.t \in {"seq", "map"}
NodeChildren(n) ==
    IF n.t = "seq" THEN {n.xs[i] : i \in 1..Len(n.xs)}
    ELSE IF n.t = "map" THEN {n.m[k] : k \in DOMAIN n.m}
    ELSE {}

\* the indentation shows in the text only where a non-empty collection is
\* nested in another
IndentShows(n) ==
    \E c \in NodeChildren(n) : IsCollectionNode(c) /\ NodeChildren(c) # {}

\* Emitter.__init__: best_indent is 2 unless 1 < indent < 10 (0 stands for
\* indent=None)
BestIndent(indent) == IF 1 < indent /\ indent < 10 THEN indent ELSE 2

\* a YAML text in block style: its documents, and the indentation where shown
YamlText(docs, indent) ==
    [kind |-> "text",
     docs |-> docs,
     indent |-> IF \E i \in 1..Len(docs) : IndentShows(docs[i])
                THEN BestIndent(indent) ELSE 0]

EmptyText == YamlText(<<>>, 0)
NoFile == [kind |-> "absent"]

\* the index of the first document dump_all cannot represent, or 0
FirstUnrepresentable(xs) ==
    IF \E i \in 1..Len(xs) : IsRaise(Represent(xs[i]))
    THEN CHOOSE i \in 1..Len(xs) :
             /\ IsRaise(Represent(xs[i]))
             /\ \A j \in 1..(i - 1) : ~IsRaise(Represent(xs[j]))
    ELSE 0

\* yaml.dump_all(documents, stream, default_flow_style=False, indent=indent):
\* the documents are written one by one, so the stream holds those before a
\* document that raises
yaml_dump_all(documents, indent) ==
    LET bad == FirstUnrepresentable(documents.xs)
        n == IF bad = 0 THEN Len(documents.xs) ELSE bad - 1
    IN  [exc |-> IF bad = 0 THEN None ELSE Represent(documents.xs[bad]),
         written |-> YamlText([i \in 1..n |-> Represent(documents.xs[i])], indent)]

\* list(yaml.load_all(text))
yaml_load_all(txt) ==
    LET xs == [i \in 1..Len(txt.docs) |-> Construct(txt.docs[i])]
    IN  IF FirstRaiseIn(xs) # None THEN FirstRaiseIn(xs) ELSE PyList(xs)

-----------------------------------------------------------------------------
(* Paths and the file system *)

Home == "/home/user"
PathJoin(folder, name) == <<folder>> \o name
\* os.path.expanduser
expanduser(p) == IF p[1] = "~" THEN <<Home>> \o Tail(p) ELSE p
\* 'kube-{}.yml'.format(uuid.uuid4()), 'jinja-{}.yml'.format(uuid.uuid4())
TempName(prefix, uuid) == <<prefix, uuid, ".yml">>
TempPath(folder, prefix, uuid) == expanduser(PathJoin(folder, TempName(prefix, uuid)))

UUIDs == {"u1", "u2"}
TempFolders == {"."}
UserPaths == {<<"~", "out.yml">>}
ScopeKinds == {"kube-", "jinja-"}
FsPaths ==
    {expanduser(p) : p \in UserPaths}
    \cup {TempPath(f, k, u) : f \in TempFolders, k \in ScopeKinds, u \in UUIDs}

NoScope == [pc |-> "none", path |-> <<>>, how |-> ""]

Ok(name) == [name |-> name, status |-> "ok", exc |-> ""]
Raised(name, e) == [name |-> name, status |-> "raise", exc |-> e.exc]

-----------------------------------------------------------------------------
(* YamlList *)

\* a constructor that asserts on the first document only
AssertFirstIsDict(data_list_arg) ==
    /\ data_list_arg.t = "list"
    /\ (Len(data_list_arg.xs) = 0 \/ IsDictInstance(data_list_arg.xs[1]))

\* the constructor's two assertions
AssertListOfDicts(data_list_arg) ==
    /\ data_list_arg.t = "list"
    /\ \A i \in 1..Len(data_list_arg.xs) : IsDictInstance(data_list_arg.xs[i])

\* the documents wrapped in the reverse order
WrapAllReversed(xs) == [i \in 1..Len(xs) |-> EasyDict(xs[Len(xs) + 1 - i])]

\* [EasyDict(d) for d in data_list]
WrapAll(xs) == [i \in 1..Len(xs) |-> EasyDict(xs[i])]

\* YamlList.__init__: the new object's data_list, or the exception
YamlList_init(data_list_arg) ==
    IF ~AssertListOfDicts(data_list_arg) THEN Raise("AssertionError")
    ELSE LET xs == WrapAll(data_list_arg.xs)
         IN  IF FirstRaiseIn(xs) # None THEN FirstRaiseIn(xs)
             ELSE [t |-> "YamlList", data_list |-> xs]

\* indexing that counts the documents from one
ListIndexFromOne(xs, i) ==
    IF i < 1 \/ i > Len(xs) THEN Raise("IndexError") ELSE xs[i]

\* list.__getitem__ with an int: a negative index counts from the end
ListIndex(xs, i) ==
    IF i >= Len(xs) \/ i < -Len(xs) THEN Raise("IndexError")
    ELSE xs[(IF i < 0 THEN i + Len(xs) ELSE i) + 1]

\* YamlList.__getitem__
getitem(dl, index) ==
    IF ~IsIntInstance(index) THEN Raise("AssertionError")
    ELSE ListIndex(dl, IntValue(index))

\* recursive_to_dict over the documents, then yaml.dump_all: the exception if
\* any, whether dump_all was called and with what, and what the stream holds
DumpDataList(dl, indent) ==
    LET l == RecursiveToDictAll(dl)
    IN  IF IsRaise(l)
        THEN [exc |-> l, called |-> FALSE, documents |-> None,
              written |-> EmptyText]
        ELSE LET d == yaml_dump_all(l, indent)
             IN  [exc |-> d.exc, called |-> TRUE, documents |-> l,
                  written |-> d.written]

\* YamlList.to_string: dump_all(..., default_flow_style=False, indent=2)
to_string(dl) == DumpDataList(dl, 2)

\* a save that dumps with another indentation than to_string
SaveDumpIndent4(dl) == DumpDataList(dl, 4)

\* YamlList.save: dump_all(..., default_flow_style=False), no indent given
SaveDump(dl) == DumpDataList(dl, 0)

\* YamlList.from_string: cls(list(yaml.load_all(text)))
from_string(txt) ==
    LET docs == yaml_load_all(txt)
    IN  IF IsRaise(docs) THEN docs ELSE YamlList_init(docs)

-----------------------------------------------------------------------------
(* Inputs *)

D_a == PyDict("a" :> PyInt(1))
D_nested == PyDict(("a" :> PyStr(<<"x">>)) @@ ("k" :> D_a))
D_list == PyDict("k" :> PyList(<<D_a, PyInt(1)>>))
D_listlist == PyDict("k" :> PyList(<<PyList(<<D_a>>)>>))
D_tuple == PyDict("k" :> PyTuple(<<D_a>>))
D_items == PyDict("items" :> PyInt(1))
D_nested_items == PyDict("k" :> PyDict("items" :> PyList(<<PyInt(1)>>)))
D_empty == PyDict(EmptyMap)

Mappings == {D_a, D_nested, D_list, D_listlist, D_tuple, D_items,
             D_nested_items, D_empty}
NonMappings == {PyList(<<PyInt(1), PyInt(2)>>), PyStr(<<"x">>), None}

SeqsUpTo(S, n) == UNION {[1..k -> S] : k \in 0..n}

\* the lists a caller passes to YamlList(...)
DocLists(S) == {PyList(xs) : xs \in SeqsUpTo(S, MaxDocs)}
\* the YAML streams a caller passes to from_string: every stream of documents
TextsOf(S) == {yaml_dump_all(l, 0).written : l \in DocLists(S)}

\* what a caller assigns to a document's attribute
SetAttrValues == {PyDict("a" :> PyInt(2)),
                  PyList(<<PyList(<<Easy("a" :> PyInt(1))>>)>>)}
SetAttrKeys == {"k"}

Indices ==
    {PyInt(i) : i \in (-(MaxDocs + 1))..(MaxDocs + 1)}
    \cup {PyBool(TRUE), PyBool(FALSE), PyStr(<<"0">>), PyFloat(1), None}

-----------------------------------------------------------------------------
(* Actions of a YamlList and its caller *)

JinjaVars == <<text, context>>

\* the outcome of a constructor call; a run makes one, the calls being
\* independent of each other
Constructed(name, a, r) ==
    /\ op.name = "start"
    /\ arg' = a
    /\ ret' = None
    /\ IF IsRaise(r)
       THEN /\ op' = Raised(name, r)
            /\ UNCHANGED <<built, data_list, src>>
       ELSE /\ op' = Ok(name)
            /\ built' = TRUE
            /\ data_list' = r.data_list
            /\ src' = a
    /\ UNCHANGED <<easydict_keeps_tuple, log, fs, scope, dump_arg, JinjaVars>>

\* YamlList(data_list)
New(l) == Constructed("__init__", l, YamlList_init(l))

\* YamlList.from_string(text)
FromString(txt) ==
    LET docs == yaml_load_all(txt)
    IN  Constructed("from_string", IF IsRaise(docs) THEN None ELSE docs,
                    from_string(txt))

\* YamlList.from_file(fpath)
FromFile(fpath) ==
    LET f == fs[expanduser(fpath)]
        docs == yaml_load_all(f)
    IN  IF f = NoFile
        THEN Constructed("from_file", None, Raise("FileNotFoundError"))
        ELSE Constructed("from_file", IF IsRaise(docs) THEN None ELSE docs,
                         from_string(f))

\* y[index]
GetItem(index) ==
    LET r == getitem(data_list, index)
    IN  /\ built
        /\ arg' = index
        /\ IF IsRaise(r)
           THEN op' = Raised("__getitem__", r) /\ ret' = None
           ELSE op' = Ok("__getitem__") /\ ret' = r
        /\ UNCHANGED <<easydict_keeps_tuple, built, data_list, src, log, fs,
                       scope, dump_arg, JinjaVars>>

\* y[i].k = value, by way of EasyDict.__setattr__
SetAttr(i, k, value) ==
    LET v == EasySetAttrValue(value)
    IN  /\ built
        /\ i \in 1..Len(data_list)
        /\ Len(log) < MaxMutations
        /\ arg' = value
        /\ ret' = None
        /\ IF IsRaise(v)
           THEN op' = Raised("__setattr__", v) /\ UNCHANGED <<data_list, log>>
           ELSE /\ op' = Ok("__setattr__")
                /\ data_list' = [data_list EXCEPT
                                   ![i] = Easy((k :> v) @@ data_list[i].m)]
                /\ log' = Append(log, i)
        /\ UNCHANGED <<easydict_keeps_tuple, built, src, fs, scope, dump_arg,
                       JinjaVars>>

\* a call that dumps to a string
Dumped(name) ==
    LET d == to_string(data_list)
    IN  /\ built
        /\ arg' = None
        /\ dump_arg' = IF d.called THEN d.documents ELSE dump_arg
        /\ IF d.exc # None
           THEN op' = Raised(name, d.exc) /\ ret' = None
           ELSE op' = Ok(name) /\ ret' = d.written
        /\ UNCHANGED <<easydict_keeps_tuple, built, data_list, src, log, fs,
                       scope, JinjaVars>>

\* y.to_string()
ToStringCall == Dumped("to_string")

\* str(y)
StrCall == Dumped("__str__")

\* the file system after YamlList.save(fpath): open(..., 'w') truncates, then
\* the dump writes
FsAfterSave(fpath, d) == [fs EXCEPT ![expanduser(fpath)] = d.written]

\* y.save(fpath)
Save(fpath) ==
    LET d == SaveDump(data_list)
    IN  /\ built
        /\ arg' = PyStr(fpath)
        /\ ret' = None
        /\ fs' = FsAfterSave(fpath, d)
        /\ dump_arg' = IF d.called THEN d.documents ELSE dump_arg
        /\ op' = IF d.exc # None THEN Raised("save", d.exc) ELSE Ok("save")
        /\ UNCHANGED <<easydict_keeps_tuple, built, data_list, src, log, scope,
                       JinjaVars>>

\* with y.temp_file(folder) as fname: up to the yield
TempFileEnter(folder, uuid) ==
    LET temp_fpath == TempPath(folder, "kube-", uuid)
        d == SaveDump(data_list)
    IN  /\ built
        /\ scope["kube-"].pc # "yielded"
        /\ arg' = PyStr(PathJoin(folder, <<>>))
        /\ fs' = FsAfterSave(temp_fpath, d)
        /\ dump_arg' = IF d.called THEN d.documents ELSE dump_arg
        /\ IF d.exc # None
           THEN /\ op' = Raised("temp_file", d.exc)
                /\ ret' = None
                /\ UNCHANGED scope
           ELSE /\ op' = Ok("temp_file")
                /\ ret' = PyStr(temp_fpath)
                /\ scope' = [scope EXCEPT !["kube-"] =
                               [pc |-> "yielded", path |-> temp_fpath, how |-> ""]]
        /\ UNCHANGED <<easydict_keeps_tuple, built, data_list, src, log,
                       JinjaVars>>

\* os.remove(path)
os_remove(path) ==
    IF fs[path] = NoFile THEN Raise("FileNotFoundError")
    ELSE [t |-> "fs", fs |-> [fs EXCEPT ![path] = NoFile]]

\* the caller's block ends normally: the generator resumes after the yield
\* and removes the file
ScopeReturn(kind, name) ==
    LET r == os_remove(scope[kind].path)
    IN  /\ scope[kind].pc = "yielded"
        /\ arg' = None
        /\ ret' = None
        /\ scope' = [scope EXCEPT ![kind].pc = "exited", ![kind].how = "return"]
        /\ IF IsRaise(r)
           THEN op' = Raised(name, r) /\ UNCHANGED fs
           ELSE op' = Ok(name) /\ fs' = r.fs
        /\ UNCHANGED <<easydict_keeps_tuple, built, data_list, src, log,
                       dump_arg, JinjaVars>>

\* what a generator-based context manager runs after its yield when the
\* caller's block raises: the exception is thrown in at the yield, and with no
\* try/finally around it nothing after the yield runs
AfterYieldOnRaise(path) == [t |-> "fs", fs |-> fs]

\* the caller's block raises
ScopeRaise(kind, name) ==
    /\ scope[kind].pc = "yielded"
    /\ arg' = None
    /\ ret' = None
    /\ scope' = [scope EXCEPT ![kind].pc = "exited", ![kind].how = "raise"]
    /\ op' = Raised(name, Raise("CallerError"))
    /\ fs' = AfterYieldOnRaise(scope[kind].path).fs
    /\ UNCHANGED <<easydict_keeps_tuple, built, data_list, src, log, dump_arg,
                   JinjaVars>>

TempFileReturn == ScopeReturn("kube-", "temp_file.__exit__")
TempFileRaise == ScopeRaise("kube-", "temp_file.__exit__")

\* YamlList.from_string(y.to_string()): the collection is left as it is and
\* the reparsed one is returned
RoundTrip ==
    LET d == to_string(data_list)
        r == from_string(d.written)
    IN  /\ built
        /\ arg' = None
        /\ dump_arg' = IF d.called THEN d.documents ELSE dump_arg
        /\ IF d.exc # None
           THEN op' = Raised("roundtrip", d.exc) /\ ret' = None
           ELSE IF IsRaise(r)
           THEN op' = Raised("roundtrip", r) /\ ret' = None
           ELSE op' = Ok("roundtrip") /\ ret' = r
        /\ UNCHANGED <<easydict_keeps_tuple, built, data_list, src, log, fs,
                       scope, JinjaVars>>

-----------------------------------------------------------------------------
(* JinjaYaml *)

\* The template text is a block mapping with one line "key: {{ var }}" per key:
\* the function from each key to the variable its line substitutes.

\* an escaping loop that assigns into the caller's context
EscapeTargetCaller == "context"

\* the dict that render's escaping loop assigns into (line 183): its own
\* context_kwargs, which **context_kwargs made a fresh dict of the call
EscapeTarget == "context_kwargs"

IsMultiline(v) == v.t = "str" /\ Contains(v.s, NL)

\* for key, value in context_kwargs.items(): the assignments of the loop
EscapedItems(m) ==
    [k \in {k \in DOMAIN m : IsMultiline(m[k])} |->
        PyStr(EscapeMultiline(m[k].s))]

\* the two dicts of a render call, after the update and the escaping loop
RenderDicts(c, kw) ==
    LET updated == IF c = None THEN kw ELSE c.m @@ kw
        h == [context |-> c, context_kwargs |-> PyDict(updated)]
        target == h[EscapeTarget]
    IN  IF target = None THEN h
        ELSE [h EXCEPT ![EscapeTarget] = PyDict(EscapedItems(updated) @@ target.m)]

\* what {{ var }} emits: str(value), nothing for an undefined variable
JinjaStr(m, var) ==
    IF var \notin DOMAIN m THEN <<>>
    ELSE IF m[var].t = "str" THEN m[var].s
    ELSE IF m[var].t = "int" /\ m[var].i \in 0..9
    THEN <<(<<"0", "1", "2", "3", "4", "5", "6", "7", "8", "9">>)[m[var].i + 1]>>
    ELSE <<"N", "o", "n", "e">>

\* jinja2.Template(self.text, ...).render(context_kwargs): the rendered text,
\* each line's value as the characters substituted
TemplateRender(template, m) ==
    IF DOMAIN template = {} THEN EmptyText
    ELSE YamlText(<<MapNode("map",
                     [k \in DOMAIN template |-> RawNode(JinjaStr(m, template[k]))])>>,
                  0)

\* JinjaYaml.render(context, **context_kwargs): the exception or the text, and
\* the caller's context after the call
render(template, c, kw) ==
    IF c # None /\ ~IsDictInstance(c)
    THEN [exc |-> Raise("AssertionError"), rendered |-> EmptyText, context |-> c]
    ELSE LET h == RenderDicts(c, kw)
         IN  [exc |-> None,
              rendered |-> TemplateRender(template, h.context_kwargs.m),
              context |-> h.context]

\* y.render(context, **kw)
Render(kw) ==
    LET r == render(text, context, kw)
    IN  /\ arg' = PyDict(kw)
        /\ context' = r.context
        /\ IF r.exc # None
           THEN op' = Raised("render", r.exc) /\ ret' = None
           ELSE op' = Ok("render") /\ ret' = r.rendered
        /\ UNCHANGED <<easydict_keeps_tuple, built, data_list, src, log, fs,
                       scope, dump_arg, text>>

\* the file system after render_file(out_file, ...): open(..., 'w') truncates,
\* then the rendered text is written if render returned
FsAfterRenderFile(out_file, r) ==
    [fs EXCEPT ![expanduser(out_file)] =
        IF r.exc # None THEN EmptyText ELSE r.rendered]

\* y.render_file(out_file, context, **kw)
RenderFile(out_file, kw) ==
    LET r == render(text, context, kw)
    IN  /\ arg' = PyDict(kw)
        /\ ret' = None
        /\ context' = r.context
        /\ fs' = FsAfterRenderFile(out_file, r)
        /\ op' = IF r.exc # None THEN Raised("render_file", r.exc)
                 ELSE Ok("render_file")
        /\ UNCHANGED <<easydict_keeps_tuple, built, data_list, src, log, scope,
                       dump_arg, text>>

\* with y.render_temp_file(folder, context, **kw) as fname: up to the yield
RenderTempFileEnter(folder, uuid, kw) ==
    LET temp_fpath == TempPath(folder, "jinja-", uuid)
        r == render(text, context, kw)
    IN  /\ scope["jinja-"].pc # "yielded"
        /\ arg' = PyDict(kw)
        /\ context' = r.context
        /\ fs' = FsAfterRenderFile(temp_fpath, r)
        /\ IF r.exc # None
           THEN /\ op' = Raised("render_temp_file", r.exc)
                /\ ret' = None
                /\ UNCHANGED scope
           ELSE /\ op' = Ok("render_temp_file")
                /\ ret' = PyStr(temp_fpath)
                /\ scope' = [scope EXCEPT !["jinja-"] =
                               [pc |-> "yielded", path |-> temp_fpath, how |-> ""]]
        /\ UNCHANGED <<easydict_keeps_tuple, built, data_list, src, log,
                       dump_arg, text>>

RenderTempFileReturn == ScopeReturn("jinja-", "render_temp_file.__exit__")
RenderTempFileRaise == ScopeRaise("jinja-", "render_temp_file.__exit__")

\* YamlList.from_template_string(text, context, **kw): the new collection is
\* returned
FromTemplateString(kw) ==
    LET r == render(text, context, kw)
        y == from_string(r.rendered)
    IN  /\ arg' = PyDict(kw)
        /\ context' = r.context
        /\ IF r.exc # None
           THEN op' = Raised("from_template_string", r.exc) /\ ret' = None
           ELSE IF IsRaise(y)
           THEN op' = Raised("from_template_string", y) /\ ret' = None
           ELSE op' = Ok("from_template_string") /\ ret' = y
        /\ UNCHANGED <<easydict_keeps_tuple, built, data_list, src, log, fs,
                       scope, dump_arg, text>>

-----------------------------------------------------------------------------
(* Inputs of JinjaYaml *)

MaxStrLen == 2

Chars == {"a", NL, DQ, SQ, BS}
Strings == SeqsUpTo(Chars, MaxStrLen)

Templates == {("a" :> "x"), ("a" :> "x") @@ ("b" :> "y")}
\* the context a caller passes: none, a mapping of x, or not a mapping
Contexts ==
    {None, PyList(<<>>), PyDict("x" :> PyInt(7))}
    \cup {PyDict("x" :> PyStr(s)) : s \in Strings}
Kwargs == {EmptyMap, ("y" :> PyStr(<<"b", NL>>))}

-----------------------------------------------------------------------------
(* Specifications *)

\* files an earlier run left at the user's path
InitFiles == {NoFile,
              yaml_dump_all(PyList(<<D_a, D_list>>), 0).written,
              yaml_dump_all(PyList(<<D_a, None>>), 0).written}

SmallMappings == {D_list, D_items}
AllDocLists == DocLists(Mappings \cup NonMappings)
AllTexts == TextsOf(Mappings \cup NonMappings)
SmallDocLists == DocLists(SmallMappings \cup {None})
MappingDocLists == DocLists({D_a, D_list, D_items})

InitWith(keeps, files, templates, contexts) ==
    /\ easydict_keeps_tuple \in keeps
    /\ built = FALSE
    /\ data_list = <<>>
    /\ src = None
    /\ log = <<>>
    /\ fs \in {[p \in FsPaths |->
                  IF p \in {expanduser(q) : q \in UserPaths} THEN f ELSE NoFile]
               : f \in files}
    /\ scope = [k \in ScopeKinds |-> NoScope]
    /\ op = Ok("start")
    /\ arg = None
    /\ ret = None
    /\ dump_arg = None
    /\ text \in templates
    /\ context \in contexts

\* The whole YamlList: every operation, on documents with and without the key
\* "items" and with nested collections.
SmallIndices == {PyInt(0), PyInt(-1), PyInt(MaxDocs), PyStr(<<"0">>)}

Init == InitWith({FALSE}, {NoFile}, {EmptyMap}, {None})

Next ==
    \/ \E l \in SmallDocLists : New(l)
    \/ \E index \in SmallIndices : GetItem(index)
    \/ \E i \in 1..MaxDocs, k \in SetAttrKeys, v \in SetAttrValues : SetAttr(i, k, v)
    \/ ToStringCall
    \/ StrCall
    \/ \E p \in UserPaths : Save(p)
    \/ \E f \in TempFolders, u \in UUIDs : TempFileEnter(f, u)
    \/ TempFileReturn
    \/ TempFileRaise

Spec == Init /\ [][Next]_vars

\* Construction and the round trip through text, on every kind of document.
InitParse == InitWith(BOOLEAN, InitFiles, {EmptyMap}, {None})

NextParse ==
    \/ \E l \in AllDocLists : New(l)
    \/ \E txt \in AllTexts : FromString(txt)
    \/ \E p \in UserPaths : FromFile(p)
    \/ RoundTrip

SpecParse == InitParse /\ [][NextParse]_vars

\* Indexed access, with every kind of index.
InitIndex == InitWith({FALSE}, {NoFile}, {EmptyMap}, {None})

NextIndex ==
    \/ \E l \in MappingDocLists : New(l)
    \/ \E index \in Indices : GetItem(index)

SpecIndex == InitIndex /\ [][NextIndex]_vars

\* The renderer.
InitJinja == InitWith({FALSE}, {NoFile}, Templates, Contexts)

NextJinja ==
    \/ \E kw \in Kwargs : Render(kw)
    \/ \E p \in UserPaths, kw \in Kwargs : RenderFile(p, kw)
    \/ \E f \in TempFolders, u \in UUIDs, kw \in Kwargs : RenderTempFileEnter(f, u, kw)
    \/ RenderTempFileReturn
    \/ RenderTempFileRaise
    \/ \E kw \in Kwargs : FromTemplateString(kw)

SpecJinja == InitJinja /\ [][NextJinja]_vars

-----------------------------------------------------------------------------
(* Claims *)

\* C1: once the scope of YamlList.temp_file has exited, on a normal return of
\* the caller's block or on a failure raised in it, no file exists at the
\* yielded path.
C1_TempFileGoneAfterScope ==
    scope["kube-"].pc = "exited" => fs[scope["kube-"].path] = NoFile

Constructors == {"__init__", "from_string", "from_file"}

\* C3: a constructor call whose documents include one that is not a mapping
\* fails and yields no collection, and every document a collection holds is
\* the wrapping of a mapping of its source, at the same position.
C3_NonMappingDocumentFails ==
    /\ ( /\ op.name \in Constructors
         /\ arg.t = "list"
         /\ \E i \in 1..Len(arg.xs) : ~IsDictInstance(arg.xs[i]) )
       => (op.status = "raise" /\ ~built)
    /\ built =>
         /\ Len(data_list) = Len(src.xs)
         /\ \A i \in 1..Len(data_list) :
                /\ IsDictInstance(src.xs[i])
                /\ data_list[i] = EasyDict(src.xs[i])

\* a stream whose first document is a mapping and whose second is empty was
\* refused
C3_Witness ==
    /\ op.name = "from_string"
    /\ op.status = "raise"
    /\ ~built
    /\ arg.t = "list"
    /\ Len(arg.xs) = 2
    /\ IsDictInstance(arg.xs[1])
    /\ arg.xs[2] = None

\* C4 as stated: y[i] returns the i-th document for an integer 0 <= i < n and
\* fails, returning nothing, for every other index, a negative integer
\* included.
C4_NegativeIndexFails ==
    op.name = "__getitem__" =>
        IF IsIntInstance(arg) /\ 0 <= IntValue(arg) /\ IntValue(arg) < Len(data_list)
        THEN op.status = "ok" /\ ret = data_list[IntValue(arg) + 1]
        ELSE op.status = "raise" /\ ret = None

\* C4 amended: y[i] returns the i-th document for an integer 0 <= i < n and
\* the (n+i)-th for an integer -n <= i < 0; it fails with IndexError for every
\* other integer and with AssertionError for every index that is not an int
\* (a bool is one), returning nothing; the collection stays as constructed.
C4_GetItem ==
    op.name = "__getitem__" =>
        LET n == Len(data_list)
        IN  /\ data_list = WrapAll(src.xs)
            /\ IF IsIntInstance(arg) /\ -n <= IntValue(arg) /\ IntValue(arg) < n
               THEN /\ op.status = "ok"
                    /\ ret = data_list[IF IntValue(arg) < 0
                                       THEN n + IntValue(arg) + 1
                                       ELSE IntValue(arg) + 1]
               ELSE /\ op.status = "raise"
                    /\ ret = None
                    /\ op.exc = IF IsIntInstance(arg) THEN "IndexError"
                                ELSE "AssertionError"

\* y[-1] returned the last of two documents
C4_Witness ==
    /\ op.name = "__getitem__"
    /\ op.status = "ok"
    /\ arg = PyInt(-1)
    /\ Len(data_list) = 2
    /\ data_list[1] # data_list[2]
    /\ ret = data_list[2]

\* C5: parsing the text of a collection gives a collection of the same
\* documents, in the same order, equal value by value.
C5_RoundTrip ==
    op.name = "roundtrip" =>
        /\ op.status = "ok"
        /\ ret.t = "YamlList"
        /\ ret.data_list = data_list

\* the value a render call substitutes for a variable: context over kwargs
ContextValue(c, kw, var) ==
    LET m == IF c = None THEN kw ELSE c.m @@ kw
    IN  IF var \in DOMAIN m THEN m[var] ELSE None

\* C6: a context string with a newline puts no raw newline into the rendered
\* text, and parsing the rendered text gives the string back unchanged.
C6_MultilineSurvives ==
    (op.name \in {"render", "from_template_string"}
     /\ (context = None \/ IsDictInstance(context)))
    => \A k \in DOMAIN text :
         LET v == ContextValue(context, arg.m, text[k])
         IN  IsMultiline(v) =>
               /\ op.status = "ok"
               /\ op.name = "render" => ~Contains(ret.docs[1].m[k].s, NL)
               /\ op.name = "from_template_string" => ret.data_list[1].m[k] = v

DumpCalls == {"to_string", "__str__", "save", "temp_file"}

\* C7: the file save(path) wrote holds the text to_string() returns for the
\* same collection, and so do a scoped temp file when it is yielded and
\* str(collection).
C7_SaveWritesToString ==
    /\ (op.name = "save" /\ op.status = "ok")
       => /\ to_string(data_list).exc = None
          /\ fs[expanduser(arg.s)] = to_string(data_list).written
    /\ (op.name = "temp_file" /\ op.status = "ok")
       => /\ to_string(data_list).exc = None
          /\ fs[ret.s] = to_string(data_list).written
    /\ (op.name = "__str__" /\ op.status = "ok")
       => ret = to_string(data_list).written

\* save wrote two documents, one with a nested collection, and the file is the
\* text of to_string
C7_Witness ==
    /\ op.name = "save"
    /\ op.status = "ok"
    /\ Len(data_list) = 2
    /\ fs[expanduser(arg.s)].indent = 2
    /\ fs[expanduser(arg.s)] = to_string(data_list).written

RECURSIVE DeepPlain(_)
\* the value with every EasyDict, at any depth, as a plain dict, and every
\* sequence of the kind it was
DeepPlain(v) ==
    IF IsDictInstance(v) THEN PyDict([k \in DOMAIN v.m |-> DeepPlain(v.m[k])])
    ELSE IF IsSequence(v)
    THEN [t |-> v.t, xs |-> [i \in 1..Len(v.xs) |-> DeepPlain(v.xs[i])]]
    ELSE v

\* C8: what to_string and save hand to the YAML dumper is the documents with
\* every EasyDict converted to a plain dict at every depth and every sequence
\* of the kind it was, also after the caller's mutations.
C8_DumperGetsPlainDicts ==
    (op.name \in DumpCalls /\ op.status = "ok") =>
        dump_arg = PyList([i \in 1..Len(data_list) |-> DeepPlain(data_list[i])])

Mutated == {log[j] : j \in 1..Len(log)}

C9_Structure ==
    built =>
        /\ Len(data_list) = Len(src.xs)
        /\ \A i \in 1..Len(data_list) :
               i \notin Mutated => data_list[i] = EasyDict(src.xs[i])

C9_Step ==
    built =>
        /\ built'
        /\ Len(data_list') = Len(data_list)
        /\ \A i \in 1..Len(data_list) :
               \/ data_list'[i] = data_list[i]
               \/ op'.name = "__setattr__" /\ i = log'[Len(log')]

\* C9: no operation of a collection, succeeding or failing, changes the number
\* or the order of its documents, which is that of the source; a document
\* changes only by the caller's mutation.
C9_StructureFixed == [](C9_Structure) /\ [][C9_Step]_vars

\* a save failed on a collection of two different documents, the first of
\* them mutated
C9_Witness ==
    /\ built
    /\ Len(data_list) = 2
    /\ src.xs[1] # src.xs[2]
    /\ log = <<1>>
    /\ data_list[2] = EasyDict(src.xs[2])
    /\ op.name = "save"
    /\ op.status = "raise"

\* C10: render changes neither the caller's context nor the template text,
\* and two calls in a row with the same arguments return the same text.
C10_RenderLeavesContext ==
    /\ [][context' = context /\ text' = text]_vars
    /\ [][(op.name = "render" /\ op.status = "ok"
           /\ op'.name = "render" /\ arg' = arg)
          => (op'.status = "ok" /\ ret' = ret)]_vars

\* render returned the escaped form of a multiline value of the context, which
\* still holds the value itself
C10_Witness ==
    /\ op.name = "render"
    /\ op.status = "ok"
    /\ IsDictInstance(context)
    /\ context.m["x"] = PyStr(<<"a", NL>>)
    /\ ret.docs[1].m["a"] = RawNode(EscapeMultiline(<<"a", NL>>))

====
